---- MODULE Spec2Model ----
(***************************************************************************)
(* Model of the retrieval-and-answer pipeline of src/vta_api2.py: the      *)
(* start-up bulk load (initialize_collections), the retrieval of context   *)
(* from the two Chroma collections (retrieve_context, with its in-line     *)
(* clean-up of forum URLs), the optional image analysis (analyze_image)    *)
(* the /api/ handler (answer_question) and the status probe               *)
(* (service_status).                                                       *)
(*                                                                         *)
(* Python strings are TLA+ strings; Len, SubSeq and \o act on them         *)
(* character by character.  Python's None is the string "None" wherever a  *)
(* value may be None or a string, and NoValue where it may be None or a    *)
(* record.                                                                 *)
(***************************************************************************)
EXTENDS Integers, Sequences, FiniteSets, TLC

VARIABLES
    tds_collection,        \* module global, None until initialize_collections
    discourse_collection,  \* module global, None until initialize_collections
    chroma,                \* the documents held by chroma_client, per collection name
    startup,               \* "pending", "done" or "failed": the startup hook
    pc,                    \* position of the request handler
    request,               \* the QuestionRequest being handled
    query_context,         \* answer_question's local query_context
    contexts,              \* retrieve_context's local contexts (a list)
    sources,               \* retrieve_context's local sources (an insertion-ordered dict)
    hits,                  \* the (doc, meta) pairs retrieve_context looped over, in order
    log,                   \* the error-level log records of the current request / startup
    calls,                 \* the outbound calls made for the current request, in order
    response,              \* what the handler returned or raised
    max_results,           \* retrieve_context's parameter max_results
    parked,                \* the locals of a second request, while the first one runs
    corpus_files,          \* the two corpus files as initialize_collections found them
    stats,                 \* what the last status probe returned
    raw_url,               \* input of the URL clean-up, when it is run on its own
    url_out,               \* its result
    url_runs               \* how many times the clean-up was applied to raw_url

vars == <<tds_collection, discourse_collection, chroma, startup, pc, request,
          query_context, contexts, sources, hits, log, calls, response,
          max_results, parked, corpus_files, stats,
          raw_url, url_out, url_runs>>

svcvars == <<tds_collection, discourse_collection, chroma, startup, pc, request,
             query_context, contexts, sources, hits, log, calls, response,
             max_results, parked, corpus_files, stats>>

urlvars == <<raw_url, url_out, url_runs>>

None == "None"

NoValue == [none |-> TRUE]

-----------------------------------------------------------------------------
(* Python string primitives, computed character by character.              *)

Min(a, b) == IF a <= b THEN a ELSE b

Char(s, i) == SubSeq(s, i, i)

\* str.endswith(suffix)
EndsWith(s, suffix) ==
    /\ Len(s) >= Len(suffix)
    /\ SubSeq(s, Len(s) - Len(suffix) + 1, Len(s)) = suffix

Digits == {"0", "1", "2", "3", "4", "5", "6", "7", "8", "9"}

\* str.isdigit(): non-empty and every character a digit
IsDigit(s) == Len(s) > 0 /\ \A i \in 1..Len(s) : Char(s, i) \in Digits

\* position of the first sep in s at or after index i, or 0
RECURSIVE FindFrom(_, _, _)
FindFrom(s, sep, i) ==
    IF i > Len(s) THEN 0
    ELSE IF Char(s, i) = sep THEN i
    ELSE FindFrom(s, sep, i + 1)

\* str.split(sep) for a one-character sep: "".split("/") = [""]
RECURSIVE Split(_, _)
Split(s, sep) ==
    LET k == FindFrom(s, sep, 1)
    IN  IF k = 0 THEN <<s>>
        ELSE <<SubSeq(s, 1, k - 1)>> \o Split(SubSeq(s, k + 1, Len(s)), sep)

\* sep.join(parts)
RECURSIVE Join(_, _)
Join(parts, sep) ==
    IF Len(parts) = 0 THEN ""
    ELSE IF Len(parts) = 1 THEN parts[1]
    ELSE parts[1] \o sep \o Join(Tail(parts), sep)

Whitespace == {" ", "\n", "\t", "\r"}

\* str.strip(): leading and trailing whitespace removed
RECURSIVE LStrip(_)
LStrip(s) ==
    IF Len(s) > 0 /\ Char(s, 1) \in Whitespace
    THEN LStrip(SubSeq(s, 2, Len(s))) ELSE s

RECURSIVE RStrip(_)
RStrip(s) ==
    IF Len(s) > 0 /\ Char(s, Len(s)) \in Whitespace
    THEN RStrip(SubSeq(s, 1, Len(s) - 1)) ELSE s

Strip(s) == RStrip(LStrip(s))

-----------------------------------------------------------------------------
(* The clean-up of a forum URL, in line in retrieve_context.               *)

\* "Remove /0 artifact"
StripZero(url) ==
    IF EndsWith(url, "/0") THEN SubSeq(url, 1, Len(url) - 2) ELSE url

\* "Remove post numbers for base topic URL"
DropPostNumber(url) ==
    LET url_parts == Split(url, "/")
    IN  IF Len(url_parts) >= 6 /\ IsDigit(url_parts[Len(url_parts)])
        THEN Join(SubSeq(url_parts, 1, Len(url_parts) - 1), "/")
        ELSE url

clean_url(url) == DropPostNumber(StripZero(url))

-----------------------------------------------------------------------------
(* The URL clean-up run on its own, on URLs of the forum's scheme and on   *)
(* other stored URLs.                                                      *)

MaxRuns == 2

Schemes == {"https:", "http:"}

Hosts == {"d.io", "discourse.onlinedegree.iitm.ac.in"}

Slugs == {"topic-slug", "ga5", "q-8"}

TopicIds == {"12345", "155939", "70"}

PostNumbers == {"0", "7", "10", "20"}

\* scheme://host/t/slug/topic-id
ThreadUrl(scheme, host, slug, id) ==
    scheme \o "//" \o host \o "/t/" \o slug \o "/" \o id

ThreadUrls ==
    {ThreadUrl(sc, h, sl, id) : sc \in Schemes, h \in Hosts, sl \in Slugs, id \in TopicIds}

\* scheme://host/t/slug/topic-id/post-number
PostUrls == {t \o "/" \o n : t \in ThreadUrls, n \in PostNumbers}

ForumUrls == ThreadUrls \cup PostUrls

OtherUrls == {"", "/0", "0", "/t/ga5/155939/7", "https://tds.s-anand.net/#/uv",
              "https://tds.s-anand.net/2025/01/0"}

RawUrls == ForumUrls \cup OtherUrls

UrlInit ==
    /\ raw_url \in RawUrls
    /\ url_out = raw_url
    /\ url_runs = 0

ApplyCleanUrl ==
    /\ url_runs < MaxRuns
    /\ url_out' = clean_url(url_out)
    /\ url_runs' = url_runs + 1
    /\ UNCHANGED <<raw_url, svcvars>>

-----------------------------------------------------------------------------
(* The corpus files read at start-up.                                      *)

\* how many pages of TdsPool / topics of DiscoursePool a corpus file holds at most
MaxPages == 3

MaxTopics == 3

TdsMinLen == 20

DiscourseMinLen == 25

\* A page of tds_combined.json.  content_kind tells whether "content" is a
\* dict with a raw_text, a plain string, or absent.
TdsPool == <<
    [content_kind |-> "dict", content |-> "  Use uv to install and run Python tools.\n",
     url |-> "https://tds.s-anand.net/#/uv", title |-> "uv"],
    [content_kind |-> "str", content |-> " npx runs any package \n",
     url |-> "https://tds.s-anand.net/#/npx", title |-> "npx"],
    [content_kind |-> "str", content |-> "GA5 is discussed on the forum thread.",
     url |-> "https://d.io/t/ga5/155939", title |-> "GA5 wiki"],
    [content_kind |-> "dict", content |-> "Docker builds images.",
     url |-> "", title |-> "Docker"],
    [content_kind |-> "missing", content |-> "",
     url |-> "https://tds.s-anand.net/#/empty", title |-> "Empty"] >>

\* A topic of discourse_combined.json; a post has content_text, content or text.
Post(content_text, content, text) ==
    [content_text |-> content_text, content |-> content, text |-> text]

DiscoursePool == <<
    [title |-> "GA5 Q8", url |-> "https://d.io/t/ga5/155939/7",
     posts |-> << Post("Use gpt-3.5-turbo-0125 for GA5 Q8.", "", ""),
                  Post("", "", "Thanks a lot!") >>],
    [title |-> "GA5 clarification", url |-> "https://d.io/t/ga5/155939/3",
     posts |-> << Post("", "The token count is what matters.", "") >>],
    [title |-> "Docker or Podman", url |-> "https://d.io/t/docker/160000",
     posts |-> << Post(" Podman is fine for the GA \n", "", ""),
                  Post("", "", "Podman is fine for the GA2") >>],
    [title |-> "Deadline", url |-> "https://d.io/t/deadline/170000/0",
     posts |-> << Post("The deadline of GA5 is extended.", "", "") >>],
    [title |-> "Bonus", url |-> "https://d.io/t/bonus/170001/12",
     posts |-> << Post("Bonus marks are added at the end.", "", "") >>] >>

Prefixes(pool, max) == {SubSeq(pool, 1, n) : n \in 0..Min(max, Len(pool))}

File(exists, valid, data) == [exists |-> exists, valid |-> valid, data |-> data]

\* tds_combined.json: absent, not valid JSON, or a list of pages
TdsFiles ==
    {File(FALSE, FALSE, <<>>), File(TRUE, FALSE, <<>>)}
        \cup {File(TRUE, TRUE, d) : d \in Prefixes(TdsPool, MaxPages)}

\* a topic whose "url" is nothing but the "/0" artifact
ArtifactTopic ==
    [title |-> "Untitled", url |-> "/0",
     posts |-> << Post("This topic has lost its address.", "", "") >>]

\* discourse_combined.json: absent, not valid JSON, or {"topics": [...]}
DiscourseFiles ==
    {File(FALSE, FALSE, <<>>), File(TRUE, FALSE, <<>>)}
        \cup {File(TRUE, TRUE, d) : d \in Prefixes(DiscoursePool, MaxTopics)}
        \cup {File(TRUE, TRUE, <<ArtifactTopic>>)}

\* where a collaborator call of initialize_collections may raise
InitFaults == {"get_or_create tds_course", "get_or_create discourse_forum",
               "tds_collection.add", "discourse_collection.add"}

-----------------------------------------------------------------------------
(* initialize_collections                                                  *)

Entry(document, url, title, source, id) ==
    [document |-> document, url |-> url, title |-> title, source |-> source, id |-> id]

\* the stripped content of a page
TdsContent(doc) ==
    IF doc.content_kind = "missing" THEN Strip("") ELSE Strip(doc.content)

\* the page is long enough to be indexed
TdsKeep(content) == content # "" /\ Len(content) > TdsMinLen

\* tds_docs / tds_metas / tds_ids of the pages from index idx on (idx counts from 0)
RECURSIVE TdsEntries(_, _)
TdsEntries(docs, idx) ==
    IF idx >= Len(docs) THEN <<>>
    ELSE LET doc == docs[idx + 1]
             content == TdsContent(doc)
         IN  (IF TdsKeep(content)
              THEN <<Entry(content, doc.url, doc.title, "tds_course", <<"tds", idx>>)>>
              ELSE <<>>)
             \o TdsEntries(docs, idx + 1)

\* content_text or content or text, stripped
PostContent(post) ==
    Strip(IF post.content_text # "" THEN post.content_text
          ELSE IF post.content # "" THEN post.content
          ELSE post.text)

\* the post is long enough to be indexed
DiscourseKeep(content) == content # "" /\ Len(content) > DiscourseMinLen

RECURSIVE PostEntries(_, _, _)
PostEntries(topic, topic_idx, post_idx) ==
    IF post_idx >= Len(topic.posts) THEN <<>>
    ELSE LET content == PostContent(topic.posts[post_idx + 1])
         IN  (IF DiscourseKeep(content)
              THEN <<Entry(content, topic.url, topic.title, "discourse_forum",
                           <<"disc", topic_idx, post_idx>>)>>
              ELSE <<>>)
             \o PostEntries(topic, topic_idx, post_idx + 1)

RECURSIVE DiscourseEntries(_, _)
DiscourseEntries(topics, topic_idx) ==
    IF topic_idx >= Len(topics) THEN <<>>
    ELSE PostEntries(topics[topic_idx + 1], topic_idx, 0)
             \o DiscourseEntries(topics, topic_idx + 1)

LogRecord(level, stage, detail) == [level |-> level, stage |-> stage, detail |-> detail]

\* The state initialize_collections leaves behind, given the two corpus files
\* and the collaborator call that raises (None: none does).  failed is TRUE
\* when the except clause is reached and RuntimeError is raised.  The
\* persistent store ./chroma_db is taken to be empty before the load.
InitOutcome(tds_file, discourse_file, fault) ==
    LET tds_docs == IF tds_file.exists /\ tds_file.valid
                    THEN TdsEntries(tds_file.data, 0) ELSE <<>>
        discourse_docs == IF discourse_file.exists /\ discourse_file.valid
                          THEN DiscourseEntries(discourse_file.data, 0) ELSE <<>>
        Out(tds, disc, tds_added, disc_added, failed, detail) ==
            [tds_collection |-> tds, discourse_collection |-> disc,
             chroma |-> [tds_course |-> tds_added, discourse_forum |-> disc_added],
             failed |-> failed, detail |-> detail]
    IN  IF fault = "get_or_create tds_course"
        THEN Out(None, None, <<>>, <<>>, TRUE, fault)
        ELSE IF fault = "get_or_create discourse_forum"
        THEN Out("tds_course", None, <<>>, <<>>, TRUE, fault)
        ELSE IF tds_file.exists /\ ~tds_file.valid
        THEN Out("tds_course", "discourse_forum", <<>>, <<>>, TRUE, "json.load")
        ELSE IF fault = "tds_collection.add" /\ tds_docs # <<>>
        THEN Out("tds_course", "discourse_forum", <<>>, <<>>, TRUE, fault)
        ELSE IF discourse_file.exists /\ ~discourse_file.valid
        THEN Out("tds_course", "discourse_forum", tds_docs, <<>>, TRUE, "json.load")
        \* the posts of a bounded corpus fit the first batch of 100
        ELSE IF fault = "discourse_collection.add" /\ discourse_docs # <<>>
        THEN Out("tds_course", "discourse_forum", tds_docs, <<>>, TRUE, fault)
        ELSE Out("tds_course", "discourse_forum", tds_docs, discourse_docs, FALSE, None)

\* startup_event: runs initialize_collections; the event loop handles no
\* request while it runs, and a failure is logged and raised again.
InitializeCollections ==
    /\ startup = "pending"
    /\ pc = "idle"
    /\ \E tds_file \in TdsFiles, discourse_file \in DiscourseFiles,
          fault \in InitFaults \cup {None} :
           LET out == InitOutcome(tds_file, discourse_file, fault)
           IN  /\ tds_collection' = out.tds_collection
               /\ discourse_collection' = out.discourse_collection
               /\ chroma' = out.chroma
               /\ startup' = IF out.failed THEN "failed" ELSE "done"
               /\ corpus_files' = [tds |-> tds_file, discourse |-> discourse_file]
               /\ log' = IF out.failed
                         THEN <<LogRecord("error", "Initialization error", out.detail),
                                LogRecord("critical", "Critical startup error",
                                          "Initialization failed: " \o out.detail)>>
                         ELSE <<>>
    /\ stats' = NoValue
    /\ UNCHANGED <<pc, request, query_context, contexts, sources, hits, calls, response,
                   max_results, parked, urlvars>>

-----------------------------------------------------------------------------
(* Requests and the outcomes of the outbound calls.                        *)

DefaultMaxResults == 5

ResultCap == 3

LinkCap == 10

Questions == {"", "What package manager should I use?"}

\* request.image: absent, an empty string, or a base64 payload
Images == {None, "", "aGVsbG8="}

\* str(e) of what a collaborator raises
Exceptions == {"Request timed out.", "Connection error."}

\* a call that returned a string (or None), and one that raised e
Ok(value) == [ok |-> TRUE, value |-> value, error |-> None]

Raised(e) == [ok |-> FALSE, value |-> None, error |-> e]

\* a query that returned hits, and one that raised e
QueryOk(found) == [ok |-> TRUE, hits |-> found, error |-> None]

QueryRaised(e) == [ok |-> FALSE, hits |-> <<>>, error |-> e]

\* response.choices[0].message.content of the image analysis; None when the
\* model returns no content
ImageOutcomes ==
    {Ok(d) : d \in {None, "", "A terminal showing pip."}} \cup {Raised(e) : e \in Exceptions}

\* response.choices[0].message.content of the answer; None when the model
\* returns no content
ChatOutcomes == {Ok(a) : a \in {None, "", "Use uv."}} \cup {Raised(e) : e \in Exceptions}

\* Python truthiness of an Optional[str]
Truthy(x) == x # None /\ x # ""

\* the injective sequences of length k over 1..n
Arrangements(n, k) ==
    {f \in [1..k -> 1..n] : \A i, j \in 1..k : i # j => f[i] # f[j]}

\* collection.query(query_texts, n_results): it raises, or returns the
\* min(n_results, count) nearest entries, in an order the embedding decides
QueryOutcomes(entries, n_results) ==
    LET k == Min(n_results, Len(entries))
    IN  {QueryOk([i \in 1..k |-> entries[f[i]]]) : f \in Arrangements(Len(entries), k)}
            \cup {QueryRaised(e) : e \in Exceptions}

\* an outbound call: what was called, with what, whether it raised and what
\* it returned
Call(to, args, raised, returned) ==
    [to |-> to, args |-> args, raised |-> raised, returned |-> returned]

-----------------------------------------------------------------------------
(* A Python dict, insertion-ordered: a sequence of items without repeated  *)
(* keys.                                                                   *)

Item(url, text) == [url |-> url, text |-> text]

HasKey(d, k) == \E i \in 1..Len(d) : d[i].url = k

\* d[k] = v
DictSet(d, k, v) ==
    IF HasKey(d, k)
    THEN [i \in 1..Len(d) |-> IF d[i].url = k THEN Item(k, v) ELSE d[i]]
    ELSE Append(d, Item(k, v))

-----------------------------------------------------------------------------
(* answer_question, analyze_image and retrieve_context                     *)

\* the locals of answer_question and retrieve_context when no request is
\* being handled
NoRequest ==
    [pc |-> "idle", request |-> NoValue, query_context |-> "", contexts |-> <<>>,
     sources |-> <<>>, hits |-> <<>>, log |-> <<>>, calls |-> <<>>, response |-> NoValue]

\* (mutant) contexts and sources are module-level objects, shared by the
\* requests in flight
NewRetrieval_Shared == [contexts |-> parked.contexts, sources |-> parked.sources]

\* retrieve_context starts from "contexts = []" and "sources = {}"
NewRetrieval == [contexts |-> <<>>, sources |-> <<>>]

Init ==
    /\ tds_collection = None
    /\ discourse_collection = None
    /\ chroma = [tds_course |-> <<>>, discourse_forum |-> <<>>]
    /\ startup = "pending"
    /\ pc = "idle"
    /\ request = NoValue
    /\ query_context = ""
    /\ contexts = <<>>
    /\ sources = <<>>
    /\ hits = <<>>
    /\ log = <<>>
    /\ calls = <<>>
    /\ response = NoValue
    /\ max_results = DefaultMaxResults
    /\ parked = NoRequest
    /\ corpus_files = NoValue
    /\ stats = NoValue
    /\ raw_url = ""
    /\ url_out = ""
    /\ url_runs = 0

\* POST /api/ with a valid body: the handler starts.  The handler is also
\* reachable when the startup hook has not run (an ASGI host without
\* lifespan events); after a failed startup the server has exited.
ReceiveRequest ==
    /\ startup \in {"pending", "done"}
    /\ pc \in {"idle", "done"}
    /\ \E question \in Questions, image \in Images :
           /\ request' = [question |-> question, image |-> image]
           /\ query_context' = question
    /\ contexts' = NewRetrieval.contexts
    /\ sources' = NewRetrieval.sources
    /\ hits' = <<>>
    /\ log' = <<>>
    /\ calls' = <<>>
    /\ response' = NoValue
    /\ pc' = "image"
    /\ stats' = NoValue
    /\ UNCHANGED <<tds_collection, discourse_collection, chroma, startup,
                   max_results, parked, corpus_files, urlvars>>

\* (mutant) the image context is appended whatever analyze_image returned
WithImageContext_Always(question, image_analysis) ==
    question \o "\nImage Context: " \o image_analysis

\* query_context after "if request.image:", given what analyze_image returned
WithImageContext(question, image_analysis) ==
    IF Truthy(image_analysis)
    THEN question \o "\nImage Context: " \o image_analysis
    ELSE question

\* "Process image if provided": analyze_image returns the description, or
\* logs the exception and returns ""
AnalyzeImage ==
    /\ pc = "image"
    /\ IF Truthy(request.image)
       THEN \E outcome \in ImageOutcomes :
               LET image_analysis == IF outcome.ok THEN outcome.value ELSE ""
               IN  /\ calls' = Append(calls, Call("analyze_image", request.image,
                                                  ~outcome.ok, outcome.value))
                   /\ log' = IF outcome.ok THEN log
                             ELSE Append(log, LogRecord("error", "Image analysis error",
                                                        outcome.error))
                   /\ query_context' = WithImageContext(request.question, image_analysis)
       ELSE UNCHANGED <<calls, log, query_context>>
    /\ max_results' = DefaultMaxResults
    /\ pc' = "forum"
    /\ UNCHANGED <<tds_collection, discourse_collection, chroma, startup, request,
                   contexts, sources, hits, response, parked, corpus_files, stats,
                   urlvars>>

\* (mutant) n_results is the fixed cap, whatever max_results is
NResults_CapOnly(limit) == ResultCap

\* n_results of both queries
NResults(limit) == Min(limit, ResultCap)

\* the body of the loop over the forum hits
ForumHit(acc, hit) ==
    [contexts |-> Append(acc.contexts, "Forum Discussion: " \o hit.document),
     sources |-> IF Truthy(hit.url)
                 THEN DictSet(acc.sources, clean_url(hit.url), hit.title)
                 ELSE acc.sources]

\* (mutant) a course snippet is put in front of the snippets gathered so far
CourseHit_InFront(acc, hit) ==
    [contexts |-> <<"Course Material: " \o hit.document>> \o acc.contexts,
     sources |-> IF Truthy(hit.url)
                 THEN DictSet(acc.sources, hit.url, hit.title)
                 ELSE acc.sources]

\* the body of the loop over the course hits
CourseHit(acc, hit) ==
    [contexts |-> Append(acc.contexts, "Course Material: " \o hit.document),
     sources |-> IF Truthy(hit.url)
                 THEN DictSet(acc.sources, hit.url, hit.title)
                 ELSE acc.sources]

RECURSIVE ForumHits(_, _)
ForumHits(acc, found) ==
    IF found = <<>> THEN acc ELSE ForumHits(ForumHit(acc, Head(found)), Tail(found))

RECURSIVE CourseHits(_, _)
CourseHits(acc, found) ==
    IF found = <<>> THEN acc ELSE CourseHits(CourseHit(acc, Head(found)), Tail(found))

\* (mutant) the exception of the forum query leaves the handler: neither
\* the course query nor the chat completion is made
AfterForumError_Propagates == "done"

\* (mutant) the except clause drops what was retrieved before the error
OnRetrievalError_Empty(ctxs, srcs) == [contexts |-> <<>>, sources |-> <<>>]

\* where retrieve_context goes when the forum query raised: to the except
\* clause around both queries and on to the return, past the course query
AfterForumError == "chat"

\* what retrieve_context returns once its except clause has logged the error
OnRetrievalError(ctxs, srcs) == [contexts |-> ctxs, sources |-> srcs]

\* retrieve_context, "Retrieve from Discourse collection"
QueryForum ==
    /\ pc = "forum"
    /\ IF discourse_collection # None
       THEN \E outcome \in QueryOutcomes(chroma[discourse_collection],
                                         NResults(max_results)) :
               /\ calls' = Append(calls, Call("discourse_collection.query", query_context,
                                              ~outcome.ok, outcome.hits))
               /\ hits' = hits \o outcome.hits
               /\ IF outcome.ok
                  THEN LET acc == ForumHits([contexts |-> contexts, sources |-> sources],
                                            outcome.hits)
                       IN  /\ contexts' = acc.contexts
                           /\ sources' = acc.sources
                           /\ log' = log
                           /\ pc' = "course"
                  ELSE LET ret == OnRetrievalError(contexts, sources)
                       IN  /\ contexts' = ret.contexts
                           /\ sources' = ret.sources
                           /\ log' = Append(log, LogRecord("error", "Context retrieval error",
                                                           outcome.error))
                           /\ pc' = AfterForumError
       ELSE /\ pc' = "course"
            /\ UNCHANGED <<calls, contexts, sources, hits, log>>
    /\ UNCHANGED <<tds_collection, discourse_collection, chroma, startup, request,
                   query_context, response, max_results, parked, corpus_files, stats,
                   urlvars>>

\* retrieve_context, "Retrieve from TDS collection", and the return
QueryCourse ==
    /\ pc = "course"
    /\ IF tds_collection # None
       THEN \E outcome \in QueryOutcomes(chroma[tds_collection],
                                         NResults(max_results)) :
               /\ calls' = Append(calls, Call("tds_collection.query", query_context,
                                              ~outcome.ok, outcome.hits))
               /\ hits' = hits \o outcome.hits
               /\ IF outcome.ok
                  THEN LET acc == CourseHits([contexts |-> contexts, sources |-> sources],
                                             outcome.hits)
                       IN  /\ contexts' = acc.contexts
                           /\ sources' = acc.sources
                           /\ log' = log
                  ELSE LET ret == OnRetrievalError(contexts, sources)
                       IN  /\ contexts' = ret.contexts
                           /\ sources' = ret.sources
                           /\ log' = Append(log, LogRecord("error", "Context retrieval error",
                                                           outcome.error))
       ELSE UNCHANGED <<calls, contexts, sources, hits, log>>
    /\ pc' = "chat"
    /\ UNCHANGED <<tds_collection, discourse_collection, chroma, startup, request,
                   query_context, response, max_results, parked, corpus_files, stats,
                   urlvars>>

NoContext == "No relevant context found."

\* (mutant) no fallback sentence for an empty list
ContextStr_NoFallback(ctxs) == Join(ctxs, "\n")

\* "Format context for LLM"
ContextStr(ctxs) == IF ctxs # <<>> THEN Join(ctxs, "\n") ELSE NoContext

SystemPrompt(context_str) ==
    "You are a Virtual Teaching Assistant for IIT Madras' Tools in Data Science course.\n"
    \o "                    Answer questions using ONLY the provided context. Be precise and technical. Do not be ambiguous, and do not suggest to look here and there. \n"
    \o "                    Context:\n"
    \o "                    " \o context_str \o "\n"
    \o "                    "

\* (mutant) every item of sources becomes a link
Links_NoCap(srcs) == srcs

\* the first LinkCap items of sources
Links(srcs) == SubSeq(srcs, 1, Min(LinkCap, Len(srcs)))

ErrorDetail == "Error processing request"

\* raise HTTPException(status_code=500, detail=...)
HTTPException(detail) == [status |-> 500, body |-> [detail |-> detail]]

\* return AnswerResponse(answer=answer, links=links)
AnswerResponse(answer, links) == [status |-> 200, body |-> [answer |-> answer, links |-> links]]

\* (mutant) a failed chat completion is answered with the links alone
Respond_PartialAnswer(outcome, srcs) ==
    IF outcome.ok /\ outcome.value # None
    THEN AnswerResponse(outcome.value, Links(srcs))
    ELSE AnswerResponse("", Links(srcs))

\* (mutant) the text of the exception is put in the error detail
Respond_LeakError(outcome, srcs) ==
    IF outcome.ok /\ outcome.value # None
    THEN AnswerResponse(outcome.value, Links(srcs))
    ELSE HTTPException(ErrorDetail \o ": " \o outcome.error)

\* what the handler does once the chat completion returned or raised:
\* AnswerResponse rejects an answer that is None, as any exception does
Respond(outcome, srcs) ==
    IF outcome.ok /\ outcome.value # None
    THEN AnswerResponse(outcome.value, Links(srcs))
    ELSE HTTPException(ErrorDetail)

\* (mutant) a failed chat completion is made again
AfterModelError_Retry == "chat"

\* where answer_question goes when the chat completion, or the building of
\* the response, raised: to its except clause, which ends the request
AfterModelError == "done"

\* "Generate answer" and "Format response"
CallModel ==
    /\ pc = "chat"
    /\ \E outcome \in ChatOutcomes :
           /\ calls' = Append(calls, Call("chat.completions.create",
                                          [system |-> SystemPrompt(ContextStr(contexts)),
                                           user |-> query_context],
                                          ~outcome.ok, outcome.value))
           /\ response' = Respond(outcome, sources)
           /\ log' = IF outcome.ok /\ outcome.value # None THEN log
                     ELSE Append(log, LogRecord("error", "Query processing error",
                                                IF outcome.ok THEN "validation error"
                                                ELSE outcome.error))
           /\ pc' = IF outcome.ok /\ outcome.value # None THEN "done" ELSE AfterModelError
    /\ UNCHANGED <<tds_collection, discourse_collection, chroma, startup, request,
                   query_context, contexts, sources, hits, max_results, parked,
                   corpus_files, stats, urlvars>>

-----------------------------------------------------------------------------
(* service_status                                                          *)

\* collection.count() returned n, or raised e
Counted(n) == [ok |-> TRUE, count |-> n, error |-> None]

CountRaised(e) == [ok |-> FALSE, count |-> 0, error |-> e]

\* what count() may do on the collection behind a handle
CountOutcomes(handle) ==
    IF handle = None THEN {Counted(0)}
    ELSE {Counted(Len(chroma[handle]))} \cup {CountRaised(e) : e \in Exceptions}

\* (mutant) count() is called on the handle whether it is set or not
CountOrZero_NoGuard(handle, outcome) ==
    IF handle # None THEN outcome
    ELSE CountRaised("'NoneType' object has no attribute 'count'")

\* "collection.count() if collection else 0"
CountOrZero(handle, outcome) == IF handle # None THEN outcome ELSE Counted(0)

\* what service_status returns: the dict is built left to right, and the
\* first exception goes to the except clause
ServiceStats(tds, discourse) ==
    IF ~tds.ok THEN [status |-> "error", message |-> tds.error]
    ELSE IF ~discourse.ok THEN [status |-> "error", message |-> discourse.error]
    ELSE [status |-> "operational", tds_documents |-> tds.count,
          discourse_posts |-> discourse.count]

\* GET /status, between two requests: the locals of a request that has
\* been answered are gone when this handler runs, and it logs nothing
ServiceStatus ==
    /\ startup \in {"pending", "done"}
    /\ pc \in {"idle", "done"}
    /\ \E tds \in CountOutcomes(tds_collection),
          discourse \in CountOutcomes(discourse_collection) :
           stats' = ServiceStats(CountOrZero(tds_collection, tds),
                                 CountOrZero(discourse_collection, discourse))
    /\ pc' = NoRequest.pc
    /\ request' = NoRequest.request
    /\ query_context' = NoRequest.query_context
    /\ contexts' = NoRequest.contexts
    /\ sources' = NoRequest.sources
    /\ hits' = NoRequest.hits
    /\ calls' = NoRequest.calls
    /\ response' = NoRequest.response
    /\ log' = NoRequest.log
    /\ UNCHANGED <<tds_collection, discourse_collection, chroma, startup,
                   max_results, parked, corpus_files, urlvars>>

Next ==
    \/ InitializeCollections
    \/ ReceiveRequest
    \/ AnalyzeImage
    \/ QueryForum
    \/ QueryCourse
    \/ CallModel
    \/ ServiceStatus

Spec == Init /\ [][Next]_vars

\* the URL clean-up alone, applied again and again to a stored URL
UrlInitial ==
    /\ tds_collection = None
    /\ discourse_collection = None
    /\ chroma = [tds_course |-> <<>>, discourse_forum |-> <<>>]
    /\ startup = "pending"
    /\ pc = "idle"
    /\ request = NoValue
    /\ query_context = ""
    /\ contexts = <<>>
    /\ sources = <<>>
    /\ hits = <<>>
    /\ log = <<>>
    /\ calls = <<>>
    /\ response = NoValue
    /\ max_results = DefaultMaxResults
    /\ parked = NoRequest
    /\ corpus_files = NoValue
    /\ stats = NoValue
    /\ UrlInit

UrlNext == ApplyCleanUrl

UrlSpec == UrlInitial /\ [][UrlNext]_vars

-----------------------------------------------------------------------------
(* "Generate answer" and "Format response" on their own: answer_question   *)
(* from the point where retrieve_context has returned, for any dict of     *)
(* sources it may be handed.                                               *)

\* how many distinct URLs a dict of sources holds at most
MaxSources == 15

Numeral == <<"1", "2", "3", "4", "5", "6", "7", "8", "9", "10", "11", "12", "13", "14",
             "15", "16", "17", "18", "19", "20">>

\* the URL of the n-th page that is stored in sources
StubUrl(n) == "https://tds.s-anand.net/#/page-" \o Numeral[n]

\* sources after n distinct URLs were stored with sources[url] = title, in
\* the order StubUrl(1), StubUrl(2), ...; with again, the first URL is stored
\* once more after each of the others
RECURSIVE StubSources(_, _)
StubSources(n, again) ==
    IF n = 0 THEN <<>>
    ELSE LET d == DictSet(StubSources(n - 1, again), StubUrl(n), "Page " \o Numeral[n])
         IN  IF again /\ n > 1 THEN DictSet(d, StubUrl(1), "Page 1 again") ELSE d

LinksInit ==
    /\ tds_collection = "tds_course"
    /\ discourse_collection = "discourse_forum"
    /\ chroma = [tds_course |-> <<>>, discourse_forum |-> <<>>]
    /\ startup = "done"
    /\ pc = "chat"
    /\ request = [question |-> "What package manager should I use?", image |-> None]
    /\ query_context = request.question
    /\ contexts = <<>>
    /\ \E n \in 0..MaxSources, again \in BOOLEAN : sources = StubSources(n, again)
    /\ hits = <<>>
    /\ log = <<>>
    /\ calls = <<>>
    /\ response = NoValue
    /\ max_results = DefaultMaxResults
    /\ parked = NoRequest
    /\ corpus_files = NoValue
    /\ stats = NoValue
    /\ raw_url = ""
    /\ url_out = ""
    /\ url_runs = 0

LinksNext == CallModel

LinksSpec == LinksInit /\ [][LinksNext]_vars

-----------------------------------------------------------------------------
(* Two requests in flight on a loaded service.  Each request is one task   *)
(* with its own locals; the scheduler may switch from one task to the      *)
(* other between any two steps.                                            *)

\* the locals of the request that is running
Locals ==
    [pc |-> pc, request |-> request, query_context |-> query_context,
     contexts |-> contexts, sources |-> sources, hits |-> hits, log |-> log,
     calls |-> calls, response |-> response]

\* the running request is set aside and the other one goes on
Switch ==
    /\ parked' = Locals
    /\ pc' = parked.pc
    /\ request' = parked.request
    /\ query_context' = parked.query_context
    /\ contexts' = parked.contexts
    /\ sources' = parked.sources
    /\ hits' = parked.hits
    /\ log' = parked.log
    /\ calls' = parked.calls
    /\ response' = parked.response
    /\ UNCHANGED <<tds_collection, discourse_collection, chroma, startup,
                   max_results, corpus_files, stats, urlvars>>

\* the corpus the service of PairSpec was loaded from
PairFiles ==
    [tds |-> File(TRUE, TRUE, <<TdsPool[1]>>),
     discourse |-> File(TRUE, TRUE, <<DiscoursePool[1]>>)]

PairIndex == InitOutcome(PairFiles.tds, PairFiles.discourse, None)

PairInit ==
    /\ tds_collection = PairIndex.tds_collection
    /\ discourse_collection = PairIndex.discourse_collection
    /\ chroma = PairIndex.chroma
    /\ startup = "done"
    /\ pc = NoRequest.pc
    /\ request = NoRequest.request
    /\ query_context = NoRequest.query_context
    /\ contexts = NoRequest.contexts
    /\ sources = NoRequest.sources
    /\ hits = NoRequest.hits
    /\ log = NoRequest.log
    /\ calls = NoRequest.calls
    /\ response = NoRequest.response
    /\ max_results = DefaultMaxResults
    /\ parked = NoRequest
    /\ corpus_files = PairFiles
    /\ stats = NoValue
    /\ raw_url = ""
    /\ url_out = ""
    /\ url_runs = 0

PairNext ==
    \/ ReceiveRequest
    \/ AnalyzeImage
    \/ QueryForum
    \/ QueryCourse
    \/ CallModel
    \/ Switch

PairSpec == PairInit /\ [][PairNext]_vars

-----------------------------------------------------------------------------
(* retrieve_context on its own: called with any max_results from 1 on, on  *)
(* collections that are unset or were loaded from any corpus.              *)

\* the largest max_results retrieve_context is called with
MaxMaxResults == 4

RetrieveInit ==
    /\ \E tds_file \in TdsFiles, discourse_file \in DiscourseFiles, loaded \in BOOLEAN :
           LET out == InitOutcome(tds_file, discourse_file, None)
           IN  /\ ~out.failed
               /\ tds_collection = IF loaded THEN out.tds_collection ELSE None
               /\ discourse_collection = IF loaded THEN out.discourse_collection ELSE None
               /\ chroma = IF loaded THEN out.chroma
                           ELSE [tds_course |-> <<>>, discourse_forum |-> <<>>]
               /\ startup = IF loaded THEN "done" ELSE "pending"
               /\ corpus_files = IF loaded
                                 THEN [tds |-> tds_file, discourse |-> discourse_file]
                                 ELSE NoValue
    /\ pc = "forum"
    /\ \E query \in Questions :
           /\ request = [question |-> query, image |-> None]
           /\ query_context = query
    /\ max_results \in 1..MaxMaxResults
    /\ contexts = NewRetrieval.contexts
    /\ sources = NewRetrieval.sources
    /\ hits = <<>>
    /\ log = <<>>
    /\ calls = <<>>
    /\ response = NoValue
    /\ parked = NoRequest
    /\ stats = NoValue
    /\ raw_url = ""
    /\ url_out = ""
    /\ url_runs = 0

RetrieveNext ==
    \/ QueryForum
    \/ QueryCourse

RetrieveSpec == RetrieveInit /\ [][RetrieveNext]_vars

-----------------------------------------------------------------------------
(* Properties of the URL clean-up (under UrlSpec).                         *)

\* C1: the clean-up is idempotent on the URLs of the forum's scheme
\* (scheme://host/t/slug/topic-id, optionally followed by /post-number):
\* applying it twice gives what applying it once gives.
C1_CleanUrlIdempotent ==
    (raw_url \in ForumUrls /\ url_runs = 2) => url_out = clean_url(raw_url)

\* C2: a post URL scheme://host/t/topic-slug/12345/N is cleaned to the thread
\* URL scheme://host/t/topic-slug/12345, for N = 7 and for N = 0.
C2_PostUrlToThreadUrl ==
    \A sc \in Schemes, h \in Hosts, n \in {"7", "0"} :
        LET thread == ThreadUrl(sc, h, "topic-slug", "12345")
        IN  (raw_url = thread \o "/" \o n /\ url_runs = 1) => url_out = thread

-----------------------------------------------------------------------------
(* Properties of retrieve_context (under Spec).                            *)

\* retrieve_context has returned to answer_question
Retrieved == pc \in {"chat", "done"}

\* the key under which a hit's title is stored in sources
KeyOf(hit) == IF hit.source = "discourse_forum" THEN clean_url(hit.url) ELSE hit.url

\* the positions in hits of the hits stored under key k
HitsOf(k) == {j \in 1..Len(hits) : Truthy(hits[j].url) /\ KeyOf(hits[j]) = k}

FirstOf(S) == CHOOSE j \in S : \A m \in S : j <= m

\* some call to `to` was made for the current request / it raised
Called(to) == \E i \in 1..Len(calls) : calls[i].to = to

CallRaised(to) == \E i \in 1..Len(calls) : calls[i].to = to /\ calls[i].raised

\* C3: the title stored in sources for a canonical URL is the title of the
\* first hit, in processing order, that maps to that URL; a later hit with
\* the same canonical URL and another title does not replace it.
C3_FirstTitleWins ==
    Retrieved =>
        \A i \in 1..Len(sources) :
            HitsOf(sources[i].url) # {}
                => sources[i].text = hits[FirstOf(HitsOf(sources[i].url))].title

\* C4: when the forum query raises and the course-site collection is
\* available, retrieve_context still queries the course-site collection.
C4_CourseQueriedAfterForumError ==
    (/\ Retrieved
     /\ CallRaised("discourse_collection.query")
     /\ tds_collection # None
     /\ chroma[tds_collection] # <<>>)
        => Called("tds_collection.query")

\* the call to `to` made for the current request
CallTo(to) == calls[CHOOSE i \in 1..Len(calls) : calls[i].to = to]

Queries == {"discourse_collection.query", "tds_collection.query"}

\* C5: when the course-site query raises, retrieve_context returns (the
\* handler goes on to the chat completion) with every forum snippet and every
\* forum source entry produced before the failure, and nothing from the course.
C5_CourseErrorKeepsForum ==
    (Retrieved /\ CallRaised("tds_collection.query")) =>
        /\ \A j \in 1..Len(hits) : hits[j].source = "discourse_forum"
        /\ contexts = [j \in 1..Len(hits) |-> "Forum Discussion: " \o hits[j].document]
        /\ \A j \in 1..Len(hits) :
               Truthy(hits[j].url) => HasKey(sources, clean_url(hits[j].url))
        /\ \A i \in 1..Len(sources) : HitsOf(sources[i].url) # {}
        /\ pc = "done" => Called("chat.completions.create")

\* a forum hit with a URL was retrieved, then the course-site query raised
C5_Witness ==
    /\ Retrieved
    /\ CallRaised("tds_collection.query")
    /\ Len(contexts) >= 2
    /\ Len(sources) >= 1

\* no query of the current request returned: each collection was None or
\* its query raised (or was not reached because the other query raised)
NoQueryReturned == \A i \in 1..Len(calls) : calls[i].to \in Queries => calls[i].raised

\* C6: retrieve_context never raises to answer_question, whatever the state
\* of the two collections (None, query raising, query returning): a finished
\* request has made the chat completion; and when no collection answered,
\* it returns an empty list and an empty dict.
C6_RetrieveNeverRaises ==
    /\ (Retrieved /\ NoQueryReturned) => (contexts = <<>> /\ sources = <<>>)
    /\ pc = "done" => Called("chat.completions.create")

\* the forum query raised on a collection that holds posts, and the request
\* was answered from an empty context
C6_Witness ==
    /\ pc = "done"
    /\ contexts = <<>> /\ sources = <<>>
    /\ CallRaised("discourse_collection.query")
    /\ chroma.discourse_forum # <<>>
    /\ response.status = 200

\* C7: when the chat completion fails, the request ends with HTTP 500 and
\* no AnswerResponse: neither an answer nor links are delivered.
C7_ModelFailureIs500 ==
    (pc = "done" /\ CallRaised("chat.completions.create")) =>
        /\ response.status = 500
        /\ DOMAIN response.body \cap {"answer", "links"} = {}

\* the chat completion raised after retrieval had found snippets and sources
C7_Witness ==
    /\ pc = "done"
    /\ CallRaised("chat.completions.create")
    /\ contexts # <<>>
    /\ sources # <<>>
    /\ response.status = 500

\* C8: the body of a failure response is the same for every request: it is
\* the fixed detail, whatever the question, the image, the contexts retrieved
\* and the exception.
C8_ErrorBodyIsOpaque ==
    (pc = "done" /\ response.status = 500)
        => response.body = [detail |-> "Error processing request"]

\* a failure response to a request with a question, an image and contexts
C8_Witness ==
    /\ pc = "done"
    /\ response.status = 500
    /\ request.question # ""
    /\ Truthy(request.image)
    /\ contexts # <<>>
    /\ log[Len(log)].detail = "Connection error."

\* answer_question is past "Process image if provided" and the image was analysed
ImageAnalysed == pc \in {"forum", "course", "chat", "done"} /\ Called("analyze_image")

\* every query and the chat completion made so far carry query_context
CallsUseQueryContext ==
    \A i \in 1..Len(calls) :
        /\ calls[i].to \in Queries => calls[i].args = query_context
        /\ calls[i].to = "chat.completions.create" => calls[i].args.user = query_context

\* C9 as stated: a failed image analysis leaves the query at the question
\* text and the request goes on; an analysis that returns a description d
\* gives the query question + "\nImage Context: " + d.
C9_ImageContextForAnyDescription ==
    ImageAnalysed =>
        LET call == CallTo("analyze_image")
        IN  /\ call.raised => query_context = request.question
            /\ (~call.raised /\ call.returned # None) =>
                   query_context = request.question \o "\nImage Context: " \o call.returned

\* C9, amended: a failed image analysis leaves the query at the question
\* text, and the queries and the chat completion are still made, with that
\* query; an analysis that returns a non-empty description d gives the query
\* question + "\nImage Context: " + d; one that returns an empty description
\* or none leaves the query at the question text.
C9_ImageContext ==
    ImageAnalysed =>
        LET call == CallTo("analyze_image")
        IN  /\ call.raised => query_context = request.question
            /\ (~call.raised /\ Truthy(call.returned)) =>
                   query_context = request.question \o "\nImage Context: " \o call.returned
            /\ (~call.raised /\ ~Truthy(call.returned)) =>
                   query_context = request.question
            /\ CallsUseQueryContext
            /\ pc = "done" => Called("chat.completions.create")
            /\ (pc = "done" /\ call.raised) =>
                   (response.status = 500 <=>
                        LET chat == CallTo("chat.completions.create")
                        IN  chat.raised \/ chat.returned = None)

\* the image analysis raised and the request was answered, from contexts
C9_Witness ==
    /\ pc = "done"
    /\ CallRaised("analyze_image")
    /\ request.question # ""
    /\ contexts # <<>>
    /\ response.status = 200

\* sub occurs in s
Contains(s, sub) ==
    \E i \in 1..(Len(s) - Len(sub) + 1) : SubSeq(s, i, i + Len(sub) - 1) = sub

\* C10: when retrieval yields no snippet, the chat completion is still
\* made, and its system message holds the sentence
\* "No relevant context found."
C10_FallbackContextIsSent ==
    (pc = "done" /\ contexts = <<>>) =>
        /\ Called("chat.completions.create")
        /\ Contains(CallTo("chat.completions.create").args.system,
                    "Context:\n                    No relevant context found.\n")

\* both collections were queried, neither had a hit, and the request was answered
C10_Witness ==
    /\ pc = "done"
    /\ contexts = <<>>
    /\ Called("discourse_collection.query") /\ Called("tds_collection.query")
    /\ ~CallRaised("discourse_collection.query") /\ ~CallRaised("tds_collection.query")
    /\ response.status = 200

-----------------------------------------------------------------------------
(* Properties of the response's links (under LinksSpec).                   *)

-----------------------------------------------------------------------------
(* Properties of start-up and of the request's validation (under Spec).    *)

\* C12: a request handled while the two collections have not finished
\* loading (the handles are still unset) gets an explicit "not ready"
\* outcome: it makes no chat completion and gets no normal answer.
C12_NotReadyWhileLoading ==
    (pc # "idle" /\ tds_collection = None /\ discourse_collection = None) =>
        /\ ~Called("chat.completions.create")
        /\ pc = "done" => response.status # 200

\* the corpus file is there and holds valid JSON
Readable(file) == file.exists /\ file.valid

\* C13: start-up does not complete when initialization fails: when the
\* registry is unreachable, or a corpus file is missing or malformed, the
\* service does not become ready with an empty collection.
C13_StartupFailsWithoutCorpus ==
    startup = "done" =>
        /\ tds_collection # None /\ discourse_collection # None
        /\ Readable(corpus_files.tds)
        /\ Readable(corpus_files.discourse)

\* C14: a request whose question is empty is rejected before any retrieval
\* work: no image analysis, no collection query, no chat completion is made
\* for it, and it gets no answer.
C14_EmptyQuestionRejected ==
    (pc # "idle" /\ request.question = "") =>
        /\ calls = <<>>
        /\ pc = "done" => response.status # 200

\* the entry with this id is in the collection
Indexed(collection, id) ==
    \E i \in 1..Len(chroma[collection]) : chroma[collection][i].id = id

\* C16: at the bulk load a page or post is left out of the index exactly
\* when its stripped content is missing or shorter than the threshold, 20
\* characters for a course page and 25 for a forum post; content of exactly
\* 20 (25) characters is indexed.
C16_ThresholdIsInclusive ==
    startup = "done" =>
        /\ \A idx \in 0..(Len(corpus_files.tds.data) - 1) :
               LET content == TdsContent(corpus_files.tds.data[idx + 1])
               IN  Indexed("tds_course", <<"tds", idx>>)
                       <=> ~(content = "" \/ Len(content) < 20)
        /\ \A topic_idx \in 0..(Len(corpus_files.discourse.data) - 1) :
               LET topic == corpus_files.discourse.data[topic_idx + 1]
               IN  \A post_idx \in 0..(Len(topic.posts) - 1) :
                       LET content == PostContent(topic.posts[post_idx + 1])
                       IN  Indexed("discourse_forum", <<"disc", topic_idx, post_idx>>)
                               <=> ~(content = "" \/ Len(content) < 25)

-----------------------------------------------------------------------------
(* Properties of the status probe (under Spec).                            *)

\* the count the probe reports for a collection when nothing fails
CountFor(handle) == IF handle = None THEN 0 ELSE Len(chroma[handle])

-----------------------------------------------------------------------------
(* Properties of two requests in flight (under PairSpec).                  *)

\* the call to `to` among the calls of the request with locals L, or NoValue
CallOf(L, to) ==
    IF \E i \in 1..Len(L.calls) : L.calls[i].to = to
    THEN L.calls[CHOOSE i \in 1..Len(L.calls) : L.calls[i].to = to]
    ELSE NoValue

\* What a request run alone on the same collections gets from the same
\* replies of its collaborators: the query, the contexts and sources, and the
\* response, computed from the request and from what its own calls returned.
Alone(L) ==
    LET image == CallOf(L, "analyze_image")
        forum == CallOf(L, "discourse_collection.query")
        course == CallOf(L, "tds_collection.query")
        chat == CallOf(L, "chat.completions.create")
        query == IF image = NoValue THEN L.request.question
                 ELSE WithImageContext(L.request.question,
                                       IF image.raised THEN "" ELSE image.returned)
        none == [contexts |-> <<>>, sources |-> <<>>]
        from_forum == IF forum = NoValue \/ forum.raised THEN none
                      ELSE ForumHits(none, forum.returned)
        retrieved == IF course = NoValue \/ course.raised THEN from_forum
                     ELSE CourseHits(from_forum, course.returned)
    IN  [image_called |-> Truthy(L.request.image),
         forum_called |-> discourse_collection # None,
         course_called |-> tds_collection # None /\ (forum = NoValue \/ ~forum.raised),
         query |-> query,
         system |-> SystemPrompt(ContextStr(retrieved.contexts)),
         response |-> IF chat = NoValue THEN NoValue
                      ELSE Respond([ok |-> ~chat.raised, value |-> chat.returned,
                                    error |-> None],
                                   retrieved.sources)]

\* the request with locals L was answered as it would have been alone
AnsweredAsAlone(L) ==
    LET alone == Alone(L)
        chat == CallOf(L, "chat.completions.create")
    IN  /\ (CallOf(L, "analyze_image") # NoValue) = alone.image_called
        /\ (CallOf(L, "discourse_collection.query") # NoValue) = alone.forum_called
        /\ (CallOf(L, "tds_collection.query") # NoValue) = alone.course_called
        /\ \A i \in 1..Len(L.calls) :
               L.calls[i].to \in Queries => L.calls[i].args = alone.query
        /\ chat # NoValue
        /\ chat.args = [system |-> alone.system, user |-> alone.query]
        /\ L.response = alone.response

\* C18: requests do not interfere.  Handling a request leaves the two
\* collections and the collection handles as they were, and for every
\* interleaving of the steps of two requests in flight each of them gets the
\* response it would get when run alone.
C18_RequestsDoNotInterfere ==
    /\ tds_collection = PairIndex.tds_collection
    /\ discourse_collection = PairIndex.discourse_collection
    /\ chroma = PairIndex.chroma
    /\ startup = "done"
    /\ max_results = DefaultMaxResults
    /\ \A L \in {Locals, parked} : L.pc = "done" => AnsweredAsAlone(L)

\* a request was answered with links while another one, with another
\* question, was between its forum query and its chat completion
C18_Witness ==
    /\ pc = "done"
    /\ response.status = 200
    /\ response.body.links # <<>>
    /\ parked.pc \in {"course", "chat"}
    /\ parked.calls # <<>>
    /\ parked.request.question # request.question
    /\ parked.contexts # contexts

-----------------------------------------------------------------------------
(* Properties of the retrieved snippets (C19 under RetrieveSpec, C20 under *)
(* Spec).                                                                  *)

\* C19: for every max_results from 1 on and every state of the index, a
\* query returning at most the number of hits it was asked for, the list of
\* contexts retrieve_context builds is at most 2 * max_results long.
C19_ContextsBounded ==
    /\ \A i \in 1..Len(calls) : Len(calls[i].returned) <= max_results
    /\ Len(contexts) <= 2 * max_results

\* retrieve_context was called with max_results = 1 on two collections
\* that both hold more than one entry, and returned one snippet of each
C19_Witness ==
    /\ pc = "chat"
    /\ max_results = 1
    /\ Len(chroma.discourse_forum) > 1
    /\ Len(chroma.tds_course) > 1
    /\ Len(contexts) = 2

\* what the query `to` of the current request returned, if it was made
ReturnedBy(to) == IF Called(to) THEN CallTo(to).returned ELSE <<>>

\* C20: in the list of contexts every "Forum Discussion: " snippet comes
\* before every "Course Material: " snippet, and within each label the
\* snippets are in the rank order the query returned; the forum collection
\* is always queried before the course-site collection.
C20_ForumBeforeCourse ==
    LET forum == ReturnedBy("discourse_collection.query")
        course == ReturnedBy("tds_collection.query")
    IN  /\ contexts = [j \in 1..Len(forum) |-> "Forum Discussion: " \o forum[j].document]
                       \o [j \in 1..Len(course) |-> "Course Material: " \o course[j].document]
        /\ \A i, j \in 1..Len(contexts) :
               (/\ SubSeq(contexts[i], 1, 17) = "Forum Discussion:"
                /\ SubSeq(contexts[j], 1, 16) = "Course Material:") => i < j
        /\ \A i, j \in 1..Len(calls) :
               (/\ calls[i].to = "discourse_collection.query"
                /\ calls[j].to = "tds_collection.query") => i < j
        /\ (Called("tds_collection.query") /\ discourse_collection # None)
               => Called("discourse_collection.query")

\* a request answered from several forum snippets and several course snippets
C20_Witness ==
    /\ pc = "done"
    /\ Len(ReturnedBy("discourse_collection.query")) >= 2
    /\ Len(ReturnedBy("tds_collection.query")) >= 2
    /\ Len(contexts) >= 4
    /\ response.status = 200

-----------------------------------------------------------------------------
(* Properties of the error handling and of the order of the stages (under  *)
(* Spec).                                                                  *)

\* the log line an except clause writes for an exception of the call `to`
StageOf(to) ==
    IF to = "analyze_image" THEN "Image analysis error"
    ELSE IF to \in Queries THEN "Context retrieval error"
    ELSE "Query processing error"

Logged(stage) == \E i \in 1..Len(log) : log[i].stage = stage

\* C21: every exception that is caught and converted, into a degraded
\* continuation or into an error outcome, has a log entry: this holds for
\* the image analysis, the retrieval, the chat completion, the
\* initialization and the status probe.
C21_CaughtExceptionsAreLogged ==
    /\ \A i \in 1..Len(calls) : calls[i].raised => Logged(StageOf(calls[i].to))
    /\ startup = "failed" => (Logged("Initialization error")
                                 /\ Logged("Critical startup error"))
    /\ (stats # NoValue /\ stats.status = "error") =>
           \E i \in 1..Len(log) : log[i].detail = stats.message

\* the place of a call in the order of the stages
Rank(to) ==
    IF to = "analyze_image" THEN 1
    ELSE IF to = "discourse_collection.query" THEN 2
    ELSE IF to = "tds_collection.query" THEN 3
    ELSE 4

\* C22: within one request the stages run in a fixed order and at most
\* once each: the image analysis (only for a request with an image) is over
\* before the forum query, the forum query before the course query, both
\* before the one chat completion, and the success response comes only once
\* that call has returned; the chat completion is not made again, and its
\* user turn is the query the retrieval used.
C22_StagesInOrderOnce ==
    /\ \A i, j \in 1..Len(calls) : i < j => Rank(calls[i].to) < Rank(calls[j].to)
    /\ Called("analyze_image") => Truthy(request.image)
    /\ (pc \in {"forum", "course", "chat", "done"} /\ Truthy(request.image))
           => Called("analyze_image")
    /\ pc = "image" => calls = <<>>
    /\ pc = "forum" => \A i \in 1..Len(calls) : calls[i].to = "analyze_image"
    /\ pc \in {"image", "forum", "course", "chat"} =>
           (~Called("chat.completions.create") /\ response = NoValue)
    /\ (pc = "done" /\ response.status = 200) =>
           LET last == calls[Len(calls)]
           IN  /\ last.to = "chat.completions.create"
               /\ ~last.raised
               /\ response.body.answer = last.returned
    /\ CallsUseQueryContext

\* a request with an image that went through all four stages and was answered
C22_Witness ==
    /\ pc = "done"
    /\ response.status = 200
    /\ Len(calls) = 4
    /\ contexts # <<>>
    /\ query_context # request.question

\* C23: every link of a successful response has a non-empty URL: for a
\* forum or course hit a key is stored in sources only if it is a non-empty
\* string once cleaned, also for a stored URL such as "/0" that is
\* non-empty before its "/0" suffix is stripped.
C23_LinksHaveUrls ==
    /\ \A i \in 1..Len(sources) : sources[i].url # ""
    /\ (pc = "done" /\ response.status = 200) =>
           \A i \in 1..Len(response.body.links) : response.body.links[i].url # ""

====
